---- MODULE Spec2Model ----
(***************************************************************************)
(* A model of the retrieval-augmented generation core of the legal text    *)
(* processing service: VectorStore._split_text, VectorStore.add_document,  *)
(* VectorStore.search, VectorStore.list_documents / get_document_count,    *)
(* VectorStore.load_documents (src/models/vector_store.py) and             *)
(* GeminiRAG.get_response (src/models/gemini_rag.py).                      *)
(*                                                                         *)
(* Texts are sequences of one-character strings.  Python indexes from 0,   *)
(* TLA+ from 1: At and Slice keep the Python indices of the source.        *)
(***************************************************************************)
EXTENDS Integers, Sequences, FiniteSets, TLC

VARIABLES
    \* ---- one call of VectorStore._split_text, statement by statement
    text,        \* the argument text
    chunk_size,  \* the argument chunk_size
    overlap,     \* the argument overlap
    spc,         \* position in _split_text: "call", "loop", "done"
    start,       \* the local cursor start
    chunks,      \* the local list chunks (the return value once spc = "done")
    spans,       \* for each appended chunk, the slice <<lo, hi>> of text it holds
    iters,       \* number of loop iterations executed so far
    \* ---- a VectorStore and the calls made on it, one after the other
    collection,  \* the ChromaDB collection: its entries [id, document, metadata], in insertion order
    issued,      \* number of uuid.uuid4() values drawn so far
    returned,    \* the doc_ids add_document has returned so far, in call order
    ret,         \* the outcome of the last call on the store
    threads,     \* for each thread that calls the store: where it is in its call, and the call's locals
    loads,       \* number of load_documents calls made so far
    \* ---- a GeminiRAG and the get_response calls made on it, one after the other
    pc,             \* position in get_response: "idle", "retrieve", "assemble", "generate",
                    \* then "success" or "degraded" (returned) or "raised" (an exception left the call)
    now,            \* the clock time.time() reads
    call,           \* the arguments query and top_k and the local start_time
    relevant_docs,  \* the local relevant_docs
    provider,       \* the generation provider's side of self.model.generate_content
    response        \* the dict get_response returned

splitVars == <<text, chunk_size, overlap, spc, start, chunks, spans, iters>>

storeVars == <<collection, issued, returned, ret, threads, loads>>

ragVars == <<pc, now, call, relevant_docs, provider, response>>

vars == <<splitVars, storeVars, ragVars>>

----------------------------------------------------------------------------
(* Bounds of the model.                                                    *)

\* longest enumerated text of SpecSplit
MaxLen == 5
\* largest enumerated chunk_size of SpecSplit
MaxChunkSize == 3

\* add_document calls made on the store
MaxAdds == 2
\* largest top_k passed to search
MaxTopK == 1
\* distances are multiples of 1 / DistUnit
DistUnit == 2
\* largest value of the clock
MaxClock == 2
\* largest top_k passed to get_response
MaxRagTopK == 2
\* threads that call one VectorStore concurrently
MaxThreads == 2
\* load_documents calls made on the store
MaxLoads == 2

(* Program constants.                                                      *)

\* def _split_text(self, text, chunk_size: int = 1000, overlap: int = 200)
DefaultChunkSize == 1000
DefaultOverlap == 200
\* range(end, max(start + chunk_size - 200, start), -1)
SentenceWindow == 200

----------------------------------------------------------------------------
(* Characters and strings.                                                 *)

Alphabet == {"a", " ", "."}

\* the characters str.strip() removes, among those of the alphabet
Whitespace == {" ", "\n", "\t"}

\* text[i] in '.!?'
SentenceEnd == {".", "!", "?"}

Max2(a, b) == IF a >= b THEN a ELSE b
Min2(a, b) == IF a <= b THEN a ELSE b
SetMax(S) == CHOOSE x \in S : \A y \in S : y <= x
SetMin(S) == CHOOSE x \in S : \A y \in S : x <= y

BoundedSeq(S, n) == UNION {[1..k -> S] : k \in 0..n}

\* n copies of the character c
Rep(c, n) == [i \in 1..n |-> c]

\* text[i], 0-based
At(s, i) == s[i + 1]

\* text[a:b], 0-based, for 0 <= a: the characters a .. min(b, len) - 1
Slice(s, a, b) == SubSeq(s, a + 1, Min2(b, Len(s)))

\* 0-based positions of s holding a character that is not whitespace
Inked(s) == {i \in 0..(Len(s) - 1) : At(s, i) \notin Whitespace}

\* number of leading characters str.strip() removes from s
StripLead(s) == IF Inked(s) = {} THEN Len(s) ELSE SetMin(Inked(s))

\* s read backwards
Reverse(s) == [i \in 1..Len(s) |-> s[Len(s) + 1 - i]]

\* number of trailing characters str.strip() removes from s
StripTrail(s) == StripLead(Reverse(s))

\* str.strip(): s without its leading and trailing whitespace
Strip(s) == IF Inked(s) = {} THEN <<>> ELSE Slice(s, StripLead(s), Len(s) - StripTrail(s))

----------------------------------------------------------------------------
(* VectorStore._split_text                                                 *)

\* lines 217-224: the end of the window that starts at st.  The for loop
\* visits i = end, end - 1, ..., lower + 1 and breaks at the first sentence
\* end it meets, which is the largest such i.
CutEnd(s, st, size) ==
    LET end == st + size
        lower == Max2(st + size - SentenceWindow, st)
        hits == {i \in (lower + 1)..end : i < Len(s) /\ At(s, i) \in SentenceEnd}
    IN  IF end < Len(s) /\ hits # {} THEN SetMax(hits) + 1 ELSE end

\* NextStart with the overlap added instead of subtracted
NextStartForward(end, ov) == IF end + ov < 0 THEN 0 ELSE end + ov

\* lines 230-232: the next cursor
NextStart(end, ov) == IF end - ov < 0 THEN 0 ELSE end - ov

\* line 226: the chunk cut from the window [st, end)
ChunkOf(s, st, end) == Strip(Slice(s, st, end))

\* the slice of s that ChunkOf(s, st, end) is, as <<lo, hi>> (hi exclusive)
SpanOf(s, st, end) ==
    LET w == Slice(s, st, end)
    IN  <<st + StripLead(w), st + StripLead(w) + Len(Strip(w))>>

\* lines 208-234 as one function, for callers; defined where the loop
\* terminates (add_document calls it with the default parameters, for which
\* every iteration advances the cursor by at least 602)
RECURSIVE SplitFrom(_, _, _, _, _)
SplitFrom(s, size, ov, st, acc) ==
    IF st >= Len(s)
    THEN acc
    ELSE LET end == CutEnd(s, st, size)
             chunk == ChunkOf(s, st, end)
         IN  SplitFrom(s, size, ov, NextStart(end, ov),
                       IF chunk # <<>> THEN Append(acc, chunk) ELSE acc)

split_text(s, size, ov) == IF Len(s) <= size THEN <<s>> ELSE SplitFrom(s, size, ov, 0, <<>>)

\* a terminating call visits pairwise different cursors below len(text), so
\* it runs at most len(text) iterations; a call that repeats a cursor never
\* returns and is followed only this far
MaxIter(s) == Min2(Len(s), MaxLen + 1) + 1

\* the inputs of SpecSplit: every text up to MaxLen with every valid
\* (chunk_size, overlap), and texts longer than the default chunk_size with
\* the default parameters
SmallInputs ==
    {<<t, c, o>> : t \in BoundedSeq(Alphabet, MaxLen), c \in 1..MaxChunkSize, o \in 0..(MaxChunkSize - 1)}

LongTexts ==
    { Rep("a", 1001),
      Rep("a", 900) \o <<".">> \o Rep("a", 400),
      Rep("a", 999) \o <<" ", ".">> \o Rep(" ", 300),
      Rep(" ", 1001) }

SplitInputs ==
    {x \in SmallInputs : x[3] < x[2]}
        \cup {<<t, DefaultChunkSize, DefaultOverlap>> : t \in LongTexts}

\* no _split_text call is being followed
SplitUnused ==
    /\ text = <<>>
    /\ chunk_size = DefaultChunkSize
    /\ overlap = DefaultOverlap
    /\ spc = "idle"
    /\ start = 0
    /\ chunks = <<>>
    /\ spans = <<>>
    /\ iters = 0

Threads == 1..MaxThreads

\* a thread that is in no call on the store
Idle == [pc |-> "idle", op |-> "none", doc_id |-> "", batch |-> <<>>, todo |-> <<>>, top_k |-> 0]

\* no VectorStore is in use
StoreUnused ==
    /\ collection = <<>>
    /\ issued = 0
    /\ returned = <<>>
    /\ ret = [op |-> "none"]
    /\ threads = [t \in Threads |-> Idle]
    /\ loads = 0

\* no GeminiRAG is in use
RagUnused ==
    /\ pc = "idle"
    /\ now = 0
    /\ call = [query |-> "", top_k |-> 0, start_time |-> 0]
    /\ relevant_docs = <<>>
    /\ provider = [state |-> "idle"]
    /\ response = [none |-> TRUE]

SplitInit ==
    /\ StoreUnused
    /\ RagUnused
    /\ \E x \in SplitInputs : text = x[1] /\ chunk_size = x[2] /\ overlap = x[3]
    /\ spc = "call"
    /\ start = 0
    /\ chunks = <<>>
    /\ spans = <<>>
    /\ iters = 0

\* lines 210-211
SplitShort ==
    /\ spc = "call"
    /\ Len(text) <= chunk_size
    /\ chunks' = <<text>>
    /\ spans' = <<<<0, Len(text)>>>>
    /\ spc' = "done"
    /\ UNCHANGED <<text, chunk_size, overlap, start, iters, storeVars, ragVars>>

\* lines 213-214
SplitEnter ==
    /\ spc = "call"
    /\ Len(text) > chunk_size
    /\ chunks' = <<>>
    /\ spans' = <<>>
    /\ start' = 0
    /\ spc' = "loop"
    /\ UNCHANGED <<text, chunk_size, overlap, iters, storeVars, ragVars>>

\* lines 216-232: one iteration of the while loop
SplitIter ==
    /\ spc = "loop"
    /\ start < Len(text)
    /\ iters < MaxIter(text)
    /\ LET end == CutEnd(text, start, chunk_size)
           chunk == ChunkOf(text, start, end)
       IN  /\ chunks' = IF chunk # <<>> THEN Append(chunks, chunk) ELSE chunks
           /\ spans' = IF chunk # <<>> THEN Append(spans, SpanOf(text, start, end)) ELSE spans
           /\ start' = NextStart(end, overlap)
    /\ iters' = iters + 1
    /\ UNCHANGED <<text, chunk_size, overlap, spc, storeVars, ragVars>>

\* lines 216, 234: the loop condition fails and chunks is returned
SplitReturn ==
    /\ spc = "loop"
    /\ start >= Len(text)
    /\ spc' = "done"
    /\ UNCHANGED <<text, chunk_size, overlap, start, chunks, spans, iters, storeVars, ragVars>>

SplitNext == SplitShort \/ SplitEnter \/ SplitIter \/ SplitReturn

SpecSplit == SplitInit /\ [][SplitNext]_vars

----------------------------------------------------------------------------
(* VectorStore: add_document, search, list_documents, get_document_count   *)

\* {**a, **b}: the keys of both, b's value where both have the key
Merge(a, b) == [k \in (DOMAIN a) \cup (DOMAIN b) |-> IF k \in DOMAIN b THEN b[k] ELSE a[k]]

\* line 41, str(uuid.uuid4()) at the n-th draw: a token no other draw yields
uuid4(n) == "u" \o ToString(n)

\* line 58: f"{doc_id}_{i}"
ChunkId(doc_id, i) == doc_id \o "_" \o ToString(i)

\* lines 51-55; metadata is the caller's dict, <<>> for None or {}
BaseMetadata(source, doc_id, metadata) ==
    Merge([source |-> source, doc_id |-> doc_id], metadata)

\* lines 59-63 with a 1-based chunk_index
ChunkMetadataOneBased(base, i, cid) ==
    Merge(base, [chunk_index |-> i + 1, chunk_id |-> cid])

\* lines 59-63
ChunkMetadata(base, i, cid) ==
    Merge(base, [chunk_index |-> i, chunk_id |-> cid])

\* lines 44-67: the entries add_document hands to collection.add
Batch(t, source, metadata, doc_id) ==
    LET cs == split_text(t, DefaultChunkSize, DefaultOverlap)
        base == BaseMetadata(source, doc_id, metadata)
    IN  [k \in 1..Len(cs) |->
            [id |-> ChunkId(doc_id, k - 1),
             document |-> cs[k],
             metadata |-> ChunkMetadata(base, k - 1, ChunkId(doc_id, k - 1))]]

Ids(entries) == {entries[k].id : k \in 1..Len(entries)}

\* lines 70-74, collection.add of ChromaDB: an empty batch and a batch that
\* repeats an id are rejected with an exception
AddRaises(batch) ==
    \/ Len(batch) = 0
    \/ \E i, j \in 1..Len(batch) : i < j /\ batch[i].id = batch[j].id

\* lines 70-74, collection.add of ChromaDB: entries whose id is already
\* stored are skipped, the others appended
CollectionAdd(coll, batch) ==
    LET IsNew(e) == e.id \notin Ids(coll)
    IN  coll \o SelectSeq(batch, IsNew)

\* the texts, source labels and caller metadata of the add_document calls:
\* a short text, a text of two chunks, a text of no chunk
ShortText == <<" ", "a", ".">>

DocTexts ==
    { ShortText,
      Rep("a", 900) \o <<".">> \o Rep("a", 400),
      Rep(" ", 1001) }

Sources == {"EPF Act 1952"}

Metadatas ==
    { <<>>,
      [type |-> "legal_act"],
      [doc_id |-> "X", source |-> "other"],
      [chunk_index |-> 7, chunk_id |-> "mine"] }

\* lines 37-81
AddDocument(t, source, metadata) ==
    /\ issued < MaxAdds
    /\ issued' = issued + 1
    /\ LET doc_id == uuid4(issued + 1)
           batch == Batch(t, source, metadata, doc_id)
       IN  IF AddRaises(batch)
           THEN /\ ret' = [op |-> "add_document", raised |-> TRUE]
                /\ UNCHANGED <<collection, returned>>
           ELSE /\ collection' = CollectionAdd(collection, batch)
                /\ returned' = Append(returned, doc_id)
                /\ ret' = [op |-> "add_document", raised |-> FALSE, value |-> doc_id]
    /\ UNCHANGED <<threads, loads, splitVars, ragVars>>

\* lines 124-136: the groups after the metadata of entries k.. are added
RECURSIVE GroupDocs(_, _, _)
GroupDocs(coll, k, groups) ==
    IF k > Len(coll)
    THEN groups
    ELSE LET m == coll[k].metadata
             has == "doc_id" \in DOMAIN m /\ m["doc_id"] # ""
             at == {g \in 1..Len(groups) : has /\ groups[g].doc_id = m["doc_id"]}
             fresh == [doc_id |-> m["doc_id"],
                       source |-> IF "source" \in DOMAIN m THEN m["source"] ELSE "Unknown",
                       chunks |-> 1,
                       metadata |-> m]
         IN  GroupDocs(coll, k + 1,
                 IF ~has THEN groups
                 ELSE IF at = {} THEN Append(groups, fresh)
                 ELSE [groups EXCEPT ![CHOOSE g \in at : TRUE].chunks = @ + 1])

\* lines 118-138: list_documents when collection.get() succeeds
list_documents(coll) == GroupDocs(coll, 1, <<>>)

\* lines 110-113: get_document_count when collection.get() succeeds
get_document_count(coll) == Len(list_documents(coll))

\* lines 118-142, with the failure of collection.get() caught at 140-142
ListDocuments ==
    /\ \E ok \in BOOLEAN :
          ret' = [op |-> "list_documents",
                  value |-> IF ok THEN list_documents(collection) ELSE <<>>]
    /\ UNCHANGED <<collection, issued, returned, threads, loads, splitVars, ragVars>>

\* the distances the collection may report: 0, a value below 1, 1 and a
\* value above 1 (the default squared L2 distance of unit vectors is in [0, 4])
Distances == {0, 1, DistUnit, DistUnit + 1}

\* line 100: the distance of a result is <<d>>, or <<>> for None when the
\* query's result carries no distances
NoDistance == <<>>

\* line 101: 1 - distance, in units of 1 / DistUnit
Score(d) == DistUnit - d

\* lines 93-102: formatted_results for the entries hit, their distances dist
\* and whether the result carries distances
Formatted(coll, hit, dist, withDist) ==
    [i \in 1..Len(hit) |->
        [content |-> coll[hit[i]].document,
         metadata |-> coll[hit[i]].metadata,
         distance |-> IF withDist THEN <<dist[i]>> ELSE NoDistance,
         score |-> IF withDist THEN Score(dist[i]) ELSE DistUnit]]

\* what collection.query may answer for n_results = k: the indices of
\* min(k, count) different entries, nearest first
Hits(coll, k) ==
    LET n == Min2(k, Len(coll))
    IN  {h \in [1..n -> 1..Len(coll)] : \A i, j \in 1..n : i # j => h[i] # h[j]}

Ascending(n) ==
    {d \in [1..n -> Distances] : \A i \in 1..(n - 1) : d[i] <= d[i + 1]}

\* lines 83-108
Search(top_k) ==
    /\ \/ \E hit \in Hits(collection, top_k), withDist \in BOOLEAN :
            \E dist \in Ascending(Len(hit)) :
                ret' = [op |-> "search", value |-> Formatted(collection, hit, dist, withDist)]
       \/ ret' = [op |-> "search", value |-> <<>>]
    /\ UNCHANGED <<collection, issued, returned, threads, loads, splitVars, ragVars>>

Init ==
    /\ SplitUnused
    /\ StoreUnused
    /\ RagUnused

\* add_document and list_documents calls on one store
Next ==
    \/ \E t \in DocTexts, source \in Sources, metadata \in Metadatas :
          AddDocument(t, source, metadata)
    \/ ListDocuments

Spec == Init /\ [][Next]_vars

\* add_document calls with the short text and search calls on one store
SearchNext ==
    \/ \E source \in Sources, metadata \in Metadatas :
          AddDocument(ShortText, source, metadata)
    \/ \E k \in 1..MaxTopK : Search(k)

SpecSearch == Init /\ [][SearchNext]_vars

----------------------------------------------------------------------------
(* One VectorStore called from several threads.  No method of VectorStore  *)
(* takes a lock, so a thread runs from one access to the collection to the *)
(* next, and the threads' accesses interleave in every order.              *)

\* lines 83-108: what search may return for n_results = top_k on coll
SearchOutcomes(coll, top_k) ==
    UNION { {Formatted(coll, hit, dist, withDist) : dist \in Ascending(Len(hit))} :
                hit \in Hits(coll, top_k), withDist \in BOOLEAN }
        \cup {<<>>}

\* lines 41-70 in thread t: doc_id is drawn, the text split, the batch built
\* and collection.add called.  The call is made for op ("add_document", or
\* "load_documents" with the documents todo still to add); a batch that
\* collection.add rejects raises out of add_document (lines 79-81) and ends
\* load_documents (lines 205-206)
CallCollectionAdd(t, op, txt, source, metadata, todo) ==
    /\ issued' = issued + 1
    /\ LET doc_id == uuid4(issued + 1)
           batch == Batch(txt, source, metadata, doc_id)
       IN  IF AddRaises(batch)
           THEN /\ threads' = [threads EXCEPT ![t] = Idle]
                /\ ret' = IF op = "add_document"
                          THEN [op |-> op, raised |-> TRUE]
                          ELSE [op |-> op]
           ELSE /\ threads' = [threads EXCEPT ![t] =
                                  [Idle EXCEPT !.pc = "collection.add", !.op = op,
                                               !.doc_id = doc_id, !.batch = batch, !.todo = todo]]
                /\ UNCHANGED ret
    /\ UNCHANGED <<collection, returned, splitVars, ragVars>>

\* lines 37-70: thread t calls add_document
AddEnter(t, txt, source, metadata) ==
    /\ threads[t].pc = "idle"
    /\ issued < MaxAdds
    /\ CallCollectionAdd(t, "add_document", txt, source, metadata, <<>>)
    /\ UNCHANGED loads

\* lines 70-77: collection.add writes the batch of thread t and returns, and
\* add_document returns doc_id; lines 197-203: in load_documents the loop
\* goes on, or the call returns after the last document
CollectionAddReturns(t) ==
    /\ threads[t].pc = "collection.add"
    /\ collection' = CollectionAdd(collection, threads[t].batch)
    /\ returned' = Append(returned, threads[t].doc_id)
    /\ IF threads[t].op = "add_document"
       THEN /\ threads' = [threads EXCEPT ![t] = Idle]
            /\ ret' = [op |-> "add_document", raised |-> FALSE, value |-> threads[t].doc_id]
       ELSE IF threads[t].todo = <<>>
       THEN /\ threads' = [threads EXCEPT ![t] = Idle]
            /\ ret' = [op |-> "load_documents"]
       ELSE /\ threads' = [threads EXCEPT ![t] =
                              [Idle EXCEPT !.pc = "loop", !.op = "load_documents",
                                           !.todo = threads[t].todo]]
            /\ UNCHANGED ret
    /\ UNCHANGED <<issued, loads, splitVars, ragVars>>

\* lines 83-90: thread t calls search, which calls collection.query
SearchEnter(t, top_k) ==
    /\ threads[t].pc = "idle"
    /\ threads' = [threads EXCEPT ![t] = [Idle EXCEPT !.pc = "collection.query", !.op = "search",
                                                      !.top_k = top_k]]
    /\ UNCHANGED <<collection, issued, returned, ret, loads, splitVars, ragVars>>

\* lines 87-108: collection.query answers thread t, or raises, and search
\* returns the formatted results, or []
SearchReturns(t) ==
    /\ threads[t].pc = "collection.query"
    /\ \E r \in SearchOutcomes(collection, threads[t].top_k) :
          ret' = [op |-> "search", value |-> r]
    /\ threads' = [threads EXCEPT ![t] = Idle]
    /\ UNCHANGED <<collection, issued, returned, loads, splitVars, ragVars>>

\* add_document calls (the short text, no caller metadata) and search calls
\* made by the threads on one store
IngestNext ==
    \/ \E t \in Threads, source \in Sources : AddEnter(t, ShortText, source, <<>>)
    \/ \E t \in Threads : CollectionAddReturns(t)
    \/ \E t \in Threads, k \in 1..MaxTopK : SearchEnter(t, k)
    \/ \E t \in Threads : SearchReturns(t)

SpecIngest == Init /\ [][IngestNext]_vars

\* lines 153-195: legal_documents, in the order the dict is iterated.  A
\* content is written by its length, its leading and trailing whitespace and
\* the sentence ends the scan of _split_text can reach (for the first
\* document, of 1066 characters, those at 805, 835 and 868, and the last
\* one); every other character is written "a"
SampleDocuments ==
    << [title |-> "EPF Act 1952",
        content |-> Rep(" ", 17) \o Rep("a", 788) \o <<".">> \o Rep("a", 29) \o <<".">>
                        \o Rep("a", 32) \o <<".">> \o Rep("a", 179) \o <<".">> \o Rep(" ", 17)],
       [title |-> "Companies Act 2013",
        content |-> Rep(" ", 17) \o Rep("a", 566) \o <<".">> \o Rep(" ", 17)],
       [title |-> "TDS Guidelines",
        content |-> Rep(" ", 17) \o Rep("a", 435) \o <<".">> \o Rep(" ", 17)] >>

\* lines 144-150: thread t calls load_documents, which reads the document
\* count (0 when collection.get() fails, lines 140-142) and returns at once
\* when it is positive; otherwise every sample document is to be added
LoadEnter(t) ==
    /\ threads[t].pc = "idle"
    /\ loads < MaxLoads
    /\ loads' = loads + 1
    /\ \E ok \in BOOLEAN :
          LET count == IF ok THEN get_document_count(collection) ELSE 0
          IN  IF count > 0
              THEN /\ ret' = [op |-> "load_documents"]
                   /\ UNCHANGED threads
              ELSE /\ threads' = [threads EXCEPT ![t] =
                                     [Idle EXCEPT !.pc = "loop", !.op = "load_documents",
                                                  !.todo = [i \in DOMAIN SampleDocuments |-> i]]]
                   /\ UNCHANGED ret
    /\ UNCHANGED <<collection, issued, returned, splitVars, ragVars>>

\* lines 197-202: the loop of load_documents calls add_document for the next
\* sample document
LoadAdd(t) ==
    /\ threads[t].pc = "loop"
    /\ LET d == SampleDocuments[Head(threads[t].todo)]
       IN  CallCollectionAdd(t, "load_documents", d.content, d.title,
                             [type |-> "legal_act"], Tail(threads[t].todo))
    /\ UNCHANGED loads

\* load_documents calls made by the threads on one store
LoadNext ==
    \/ \E t \in Threads : LoadEnter(t)
    \/ \E t \in Threads : LoadAdd(t)
    \/ \E t \in Threads : CollectionAddReturns(t)

SpecLoad == Init /\ [][LoadNext]_vars

----------------------------------------------------------------------------
(* GeminiRAG.get_response                                                  *)

\* line 53: the fixed answer of the degraded response
Apology ==
    "I apologize, but I encountered an error while processing your question. Please try again."

\* the exceptions the vector store and the generation client raise; all are
\* subclasses of Exception
ExceptionClasses == {"ValueError", "ConnectionError", "DeadlineExceeded"}

\* an except clause that names one subclass only
CatchesValueErrorOnly(e) == e = "ValueError"

\* line 50: except Exception as e
Catches(e) == e \in ExceptionClasses

\* lines 52-58 with the exception text given as the answer
DegradedLeaky(e, elapsed) ==
    [answer |-> e,
     sources |-> <<>>,
     context_used |-> 0,
     processing_time |-> elapsed,
     error |-> e]

\* lines 52-58: the dict the handler returns; str(e) is the name of e
Degraded(e, elapsed) ==
    [answer |-> Apology,
     sources |-> <<>>,
     context_used |-> 0,
     processing_time |-> elapsed,
     error |-> e]

\* lines 43-48 with context_used taken from the argument top_k
SuccessCountsTopK(answer, docs, elapsed) ==
    [answer |-> answer,
     sources |-> [i \in 1..Len(docs) |-> docs[i].metadata],
     context_used |-> call.top_k,
     processing_time |-> elapsed]

\* lines 43-48: the dict returned when search and generation both returned
Success(answer, docs, elapsed) ==
    [answer |-> answer,
     sources |-> [i \in 1..Len(docs) |-> docs[i].metadata],
     context_used |-> Len(docs),
     processing_time |-> elapsed]

\* lines 60-70: _create_context, the parts per document in order
create_context(docs) ==
    [i \in 1..Len(docs) |->
        <<"Document", i,
          IF "source" \in DOMAIN docs[i].metadata THEN docs[i].metadata["source"] ELSE "Unknown",
          docs[i].content>>]

\* lines 72-89: _create_prompt, the fixed template around context and query
create_prompt(q, context) == [context |-> context, question |-> q]

\* what self.vector_store.search may return: stored chunks as search formats them
FoundDocs ==
    { [content |-> <<"a", ".">>,
       metadata |-> [source |-> "EPF Act 1952", doc_id |-> "u1", chunk_index |-> 0, chunk_id |-> "u1_0"],
       distance |-> <<1>>,
       score |-> DistUnit - 1],
      [content |-> <<"b">>,
       metadata |-> [source |-> "TDS Guidelines", doc_id |-> "u2", chunk_index |-> 0, chunk_id |-> "u2_0"],
       distance |-> <<DistUnit + 1>>,
       score |-> 0 - 1] }

\* the lists of at most k different found documents
FoundLists(k) ==
    UNION { {h \in [1..n -> FoundDocs] : \A i, j \in 1..n : i # j => h[i] # h[j]} : n \in 0..k }

Queries == {"employer contribution percentage"}

Answers == {"ten per cent"}

\* time.time() advances
Tick ==
    /\ now < MaxClock
    /\ now' = now + 1
    /\ UNCHANGED <<pc, call, relevant_docs, provider, response, splitVars, storeVars>>

\* lines 26-28: get_response is called and reads start_time
GetResponse(q, k) ==
    /\ pc \in {"idle", "success", "degraded"}
    /\ call' = [query |-> q, top_k |-> k, start_time |-> now]
    /\ pc' = "retrieve"
    /\ relevant_docs' = <<>>
    /\ provider' = [state |-> "idle"]
    /\ response' = [none |-> TRUE]
    /\ UNCHANGED <<now, splitVars, storeVars>>

\* lines 50-58: exception e reaches the end of the try block
Handle(e) ==
    IF Catches(e)
    THEN /\ response' = Degraded(e, now - call.start_time)
         /\ pc' = "degraded"
    ELSE /\ pc' = "raised"
         /\ UNCHANGED response

\* line 32: search returns a list
Retrieve ==
    /\ pc = "retrieve"
    /\ \E docs \in FoundLists(call.top_k) : relevant_docs' = docs
    /\ pc' = "assemble"
    /\ UNCHANGED <<now, call, provider, response, splitVars, storeVars>>

\* line 32: search raises
RetrieveRaises ==
    /\ pc = "retrieve"
    /\ \E e \in ExceptionClasses : Handle(e)
    /\ UNCHANGED <<now, call, relevant_docs, provider, splitVars, storeVars>>

\* lines 35-39: the context and the prompt are built and the request is sent
Generate ==
    /\ pc = "assemble"
    /\ provider' = [state |-> "pending",
                    prompt |-> create_prompt(call.query, create_context(relevant_docs))]
    /\ pc' = "generate"
    /\ UNCHANGED <<now, call, relevant_docs, response, splitVars, storeVars>>

\* the provider answers the request: with a text, with a response that holds
\* no text, or with an error
ProviderReplies ==
    /\ provider.state = "pending"
    /\ \/ \E a \in Answers : provider' = [state |-> "text", text |-> a]
       \/ provider' = [state |-> "blocked"]
       \/ \E e \in ExceptionClasses : provider' = [state |-> "error", error |-> e]
    /\ UNCHANGED <<pc, now, call, relevant_docs, response, splitVars, storeVars>>

\* lines 39-48: generate_content returns and the response is built
GenerateReturns ==
    /\ pc = "generate"
    /\ provider.state = "text"
    /\ response' = Success(provider.text, relevant_docs, now - call.start_time)
    /\ pc' = "success"
    /\ UNCHANGED <<now, call, relevant_docs, provider, splitVars, storeVars>>

\* line 39: generate_content raises; line 44: response.text raises ValueError
\* on a response that holds no text
GenerateRaises ==
    /\ pc = "generate"
    /\ provider.state \in {"error", "blocked"}
    /\ Handle(IF provider.state = "error" THEN provider.error ELSE "ValueError")
    /\ UNCHANGED <<now, call, relevant_docs, provider, splitVars, storeVars>>

RagInit ==
    /\ SplitUnused
    /\ StoreUnused
    /\ RagUnused

\* the steps of the thread that runs get_response
RagStep ==
    \/ \E q \in Queries, k \in 1..MaxRagTopK : GetResponse(q, k)
    \/ Retrieve
    \/ RetrieveRaises
    \/ Generate
    \/ GenerateReturns
    \/ GenerateRaises

RagNext == RagStep \/ ProviderReplies \/ Tick

SpecRag == RagInit /\ [][RagNext]_vars

\* the thread that runs get_response keeps running; nothing makes the
\* provider answer
FairRag == SpecRag /\ WF_vars(RagStep)

----------------------------------------------------------------------------
(* Properties of the VectorStore.                                          *)

Range(f) == {f[x] : x \in DOMAIN f}

\* C7 (SpecSearch): every result search returns has a score in [0, 1], equal
\* to max(0, min(1, 1 - d)) for the distance d the collection reported.
C7_ScoreClamped ==
    ret.op = "search" =>
        \A i \in 1..Len(ret.value) :
            /\ 0 <= ret.value[i].score
            /\ ret.value[i].score <= DistUnit
            /\ \A d \in Range(ret.value[i].distance) :
                  ret.value[i].score = Max2(0, Min2(DistUnit, DistUnit - d))

\* C8 (Spec): the doc_ids add_document has returned are pairwise distinct and
\* get_document_count has grown by one with each of them.
C8_FreshIdAndCount ==
    /\ \A i, j \in 1..Len(returned) : i # j => returned[i] # returned[j]
    /\ get_document_count(collection) = Len(returned)

\* the entries of the collection whose id is derived from doc_id d
ChunksOf(d) ==
    {k \in 1..Len(collection) :
        collection[k].id = ChunkId(d, collection[k].metadata["chunk_index"])}

\* C9 (Spec): the ids of the stored chunks are pairwise distinct; each is
\* derived from the doc_id add_document generated for its document and from
\* the chunk's chunk_index, and is the chunk's chunk_id; the chunk_index
\* values of each document are 0..n-1, each once.
C9_ChunkIds ==
    /\ \A i, j \in 1..Len(collection) : i # j => collection[i].id # collection[j].id
    /\ \A k \in 1..Len(collection) :
          /\ collection[k].metadata["chunk_id"] = collection[k].id
          /\ \E d \in Range(returned) : k \in ChunksOf(d)
    /\ \A d \in Range(returned) :
          /\ ChunksOf(d) # {}
          /\ \A i, j \in ChunksOf(d) :
                i # j => collection[i].metadata["chunk_index"] # collection[j].metadata["chunk_index"]
          /\ {collection[k].metadata["chunk_index"] : k \in ChunksOf(d)}
                = 0..(Cardinality(ChunksOf(d)) - 1)

\* C9 witness: two documents are stored, one of them in two chunks.
C9_Witness ==
    /\ Len(returned) = 2
    /\ Cardinality(ChunksOf(returned[1])) = 2
    /\ ChunksOf(returned[2]) # {}

\* C13 (Spec): whatever the caller's metadata, every stored chunk carries in
\* its metadata the doc_id add_document returned for it and the source that
\* was passed, and list_documents lists each returned doc_id with all the
\* chunks of its document.
C13_StoredDocIdAndSource ==
    /\ \A k \in 1..Len(collection) :
          /\ \E d \in Range(returned) :
                k \in ChunksOf(d) /\ collection[k].metadata["doc_id"] = d
          /\ collection[k].metadata["source"] \in Sources
    /\ \A d \in Range(returned) :
          \E g \in Range(list_documents(collection)) :
              g.doc_id = d /\ g.chunks = Cardinality(ChunksOf(d))

\* the threads whose add_document call is inside collection.add
Writers == {t \in Threads : threads[t].pc = "collection.add"}

\* C11 (SpecIngest): under every interleaving of concurrent add_document
\* calls at most one of them is inside collection.add, mutating the
\* collection, at a time; and a search call in progress is never blocked: it
\* can return whatever the other threads are doing.
C11_SingleWriter ==
    /\ Cardinality(Writers) <= 1
    /\ \A t \in Threads : threads[t].pc = "collection.query" => ENABLED SearchReturns(t)

\* the documents list_documents reports for the sample document titled s
Seeded(s) == {g \in 1..Len(list_documents(collection)) : list_documents(collection)[g].source = s}

\* no load_documents call is in progress
NoLoadRunning == \A t \in Threads : threads[t].op # "load_documents"

\* C15 (SpecLoad): load_documents seeds the store at most once.  No sample
\* document is ever stored twice; when no call is running and one has been
\* made, each sample document is stored once and the document count is 3;
\* and a call made on a store that holds a document adds nothing.
C15_SeededOnce ==
    /\ [](\A i \in DOMAIN SampleDocuments : Cardinality(Seeded(SampleDocuments[i].title)) <= 1)
    /\ []((NoLoadRunning /\ loads >= 1) =>
            /\ \A i \in DOMAIN SampleDocuments : Cardinality(Seeded(SampleDocuments[i].title)) = 1
            /\ get_document_count(collection) = Len(SampleDocuments))
    /\ [][\A t \in Threads :
            (threads[t].pc = "idle" /\ threads'[t].pc = "loop") => get_document_count(collection) = 0]_vars

----------------------------------------------------------------------------
(* Properties of get_response.                                             *)

\* the generation call of the current get_response call failed
GenerationFailed == provider.state \in {"error", "blocked"}

\* C1 (SpecRag): no exception leaves get_response; a call in which search or
\* generation raised returns the degraded response: the fixed apology,
\* sources = [], context_used = 0, a processing_time and the error.
C1_FailuresAbsorbed ==
    /\ pc # "raised"
    /\ GenerationFailed => pc \in {"generate", "degraded"}
    /\ pc = "degraded" =>
          /\ DOMAIN response = {"answer", "sources", "context_used", "processing_time", "error"}
          /\ response.answer = Apology
          /\ response.sources = <<>>
          /\ response.context_used = 0
          /\ response.processing_time >= 0
          /\ response.error \in ExceptionClasses

\* C1 witness: search raised after the clock had advanced, and the call
\* returned the degraded response.
C1_Witness ==
    /\ pc = "degraded"
    /\ provider.state = "idle"
    /\ response.processing_time >= 1

\* C2 as claimed: when generation fails after search returned n chunks, the
\* response has error set, the fixed fallback answer and context_used = n.
C2_ContextUsedCountsRetrieved ==
    (pc = "degraded" /\ provider.state = "error") =>
        /\ "error" \in DOMAIN response
        /\ response.answer = Apology
        /\ response.context_used = Len(relevant_docs)

\* C2 as amended: when generation fails after search returned n chunks, the
\* response has error set, the fixed fallback answer, context_used = 0 and
\* sources = [], whatever n is.
C2_ContextUsedZero ==
    (pc = "degraded" /\ provider.state = "error") =>
        /\ "error" \in DOMAIN response
        /\ response.answer = Apology
        /\ response.context_used = 0
        /\ response.sources = <<>>

\* C2 witness: generation raised after search had returned a chunk.
C2_Witness ==
    /\ pc = "degraded"
    /\ provider.state = "error"
    /\ Len(relevant_docs) >= 1

\* C12 (SpecRag): a get_response call in which search and generation both
\* returned answers with sources = the metadata of the retrieved chunks in
\* retrieval order, context_used = the number of retrieved chunks and no
\* error field; in every response, successful or degraded, context_used =
\* len(sources).
C12_SourcesMatchRetrieved ==
    /\ pc = "success" =>
          /\ Len(response.sources) = Len(relevant_docs)
          /\ \A i \in 1..Len(relevant_docs) : response.sources[i] = relevant_docs[i].metadata
          /\ response.context_used = Len(relevant_docs)
          /\ "error" \notin DOMAIN response
    /\ pc \in {"success", "degraded"} => response.context_used = Len(response.sources)

\* C12 witness: a call has succeeded with two retrieved chunks of different
\* documents.
C12_Witness ==
    /\ pc = "success"
    /\ Len(relevant_docs) = 2
    /\ response.sources[1] # response.sources[2]
    /\ response.context_used = 2

\* C10 (FairRag): every get_response call eventually returns, in success or
\* degraded, also when the provider never answers.
C10_CallReturns ==
    (pc \in {"retrieve", "assemble", "generate"}) ~> (pc \in {"success", "degraded"})

----------------------------------------------------------------------------
(* Properties of _split_text, checked under SpecSplit.                     *)

\* position p of text lies in a returned chunk
Covered(p) == \E k \in 1..Len(spans) : spans[k][1] <= p /\ p < spans[k][2]

\* every returned chunk is the slice of text its span names
SpansMatchChunks ==
    /\ Len(spans) = Len(chunks)
    /\ \A k \in 1..Len(chunks) : chunks[k] = Slice(text, spans[k][1], spans[k][2])

\* C3: with 0 <= overlap < chunk_size the cursor start strictly advances on
\* every iteration of the split loop, sentence cuts included.
C3_CursorAdvances == [][SplitIter => start' > start]_vars

\* C4 as claimed: once _split_text has returned, every character position of
\* text is contained in a returned chunk.
C4_EveryPositionCovered ==
    spc = "done" => \A p \in 0..(Len(text) - 1) : Covered(p)

\* C4 as amended: once _split_text has returned, every position of text that
\* holds a non-whitespace character is contained in a returned chunk (and
\* each chunk is a slice of text).
C4_EveryInkedPositionCovered ==
    spc = "done" => (SpansMatchChunks /\ \A p \in Inked(text) : Covered(p))

\* C4 witness: a windowed split has returned at least two chunks and lost a
\* whitespace position between them.
C4_Witness ==
    /\ spc = "done"
    /\ Len(text) > chunk_size
    /\ Len(chunks) >= 2
    /\ overlap >= 1
    /\ \E p \in 0..(Len(text) - 1) : ~Covered(p)

\* C5: for len(text) <= chunk_size, _split_text returns exactly one chunk,
\* the text with leading and trailing whitespace trimmed.
C5_ShortTextTrimmed ==
    (spc = "done" /\ Len(text) <= chunk_size) => chunks = <<Strip(text)>>

\* C6: every string _split_text returns is non-empty after trimming.
C6_NoBlankChunk ==
    spc = "done" => \A k \in 1..Len(chunks) : Strip(chunks[k]) # <<>>

\* C14: every chunk _split_text has appended or returned has length at most
\* chunk_size, also when the cut was moved to just after a sentence end.
C14_ChunkWithinSize ==
    \A k \in 1..Len(chunks) : Len(chunks[k]) <= chunk_size

====
